---------------------------- MODULE Spec2Model ----------------------------
(***************************************************************************)
(* A model of the lambda-calculus evaluator of src/src/main.cc: the lexer, *)
(* the recursive-descent parser, the renderer, the substitution engine,    *)
(* the reducer, evaluate, and the interpreter with its binding store.      *)
(*                                                                         *)
(* A text (String) is a sequence of codepoints, each codepoint a string of *)
(* length one.  A name is a text: the parser makes names of one codepoint, *)
(* freshName appends decimal digits.                                       *)
(***************************************************************************)
EXTENDS Integers, Sequences, FiniteSets, Bags, TLC

VARIABLES
    line,           \* the argument of the running interpret call (NoText: none)
    caller,         \* "none" | "Binding" | "Expression": who called evaluate
    input,          \* the argument of the running evaluate call
    pc,             \* "idle" | "lex" | "parse" | "reduce" | "returned" | "crashed"
    tokens,         \* the lexer's result
    start,          \* the parser's result: the term handed to betaReduce
    prev,           \* the term before the latest betaReduceStep
    expr,           \* betaReduce's local expr
    log,            \* per betaReduceStep call, the bag of trace records it wrote
    result,         \* evaluate's Result
    globalMapping,  \* the binding store
    output,         \* what the latest interpret call returned
    history         \* the lines of the interpret calls that returned, in order

vars == <<line, caller, input, pc, tokens, start, prev, expr, log, result,
          globalMapping, output, history>>

----------------------------------------------------------------------------
(* Bounds of the model. *)

\* Every text of at most MaxLen codepoints over Alphabet is an input.
MaxLen == 5
\* betaReduce's loop is unbounded; the model follows it for MaxSteps calls.
MaxSteps == 5
\* The session is followed for MaxCalls interpret calls.
MaxCalls == 2

----------------------------------------------------------------------------
(* Codepoints and texts. *)

Lambda == "λ"

\* isspace in the "C" locale
IsSpace(c) == c \in {" ", "\t", "\n", "\f", "\r"}

\* isdigit
IsDigit(c) == c \in {"0", "1", "2", "3", "4", "5", "6", "7", "8", "9"}

RECURSIVE Concat(_)
\* The concatenation of a sequence of texts.
Concat(ts) == IF ts = <<>> THEN <<>> ELSE Head(ts) \o Concat(Tail(ts))

\* std::to_string of a natural number below 100
ToStringNat(i) ==
    LET d(k) == <<"0", "1", "2", "3", "4", "5", "6", "7", "8", "9">>[k + 1]
    IN  IF i < 10 THEN <<d(i)>> ELSE <<d(i \div 10), d(i % 10)>>

----------------------------------------------------------------------------
(* Lexer. *)

Token(t, v) == [type |-> t, value |-> v]

RECURSIVE skipWhitespace(_, _)
\* The position after the run of whitespace that starts at position.
skipWhitespace(in, position) ==
    IF position <= Len(in) /\ IsSpace(in[position])
    THEN skipWhitespace(in, position + 1)
    ELSE position

\* Classify with the test written !isspace(c && !isdigit(c)): a digit passes.
ClassifyMisparenthesised(current) ==
    IF current = Lambda THEN Token("LAMBDA", "")
    ELSE IF current = "." THEN Token("DOT", "")
    ELSE IF current = "(" THEN Token("LPAREN", "")
    ELSE IF current = ")" THEN Token("RPAREN", "")
    ELSE Token("VARIABLE", current)

\* The token of one consumed codepoint; "THROW" stands for the throw.
Classify(current) ==
    IF current = Lambda THEN Token("LAMBDA", "")
    ELSE IF current = "." THEN Token("DOT", "")
    ELSE IF current = "(" THEN Token("LPAREN", "")
    ELSE IF current = ")" THEN Token("RPAREN", "")
    ELSE IF ~IsSpace(current) /\ ~IsDigit(current) THEN Token("VARIABLE", current)
    ELSE Token("THROW", "")

UnexpectedCharacter ==
    <<"U","n","e","x","p","e","c","t","e","d"," ","c","h","a","r","a","c","t","e","r",
      " ","e","n","c","o","u","n","t","e","r","e","d">>

RECURSIVE TokenizeFrom(_, _, _)
\* Lexer::tokenize's loop from position, with the tokens collected so far.
TokenizeFrom(in, position, toks) ==
    LET p == skipWhitespace(in, position)
    IN  IF position > Len(in) \/ p > Len(in)
        THEN [ok |-> TRUE, tokens |-> Append(toks, Token("END", "")), what |-> <<>>]
        ELSE LET t == Classify(in[p])
             IN  IF t.type = "THROW"
                 THEN [ok |-> FALSE, tokens |-> <<>>, what |-> UnexpectedCharacter]
                 ELSE TokenizeFrom(in, p + 1, Append(toks, t))

tokenize(in) == TokenizeFrom(in, 1, <<>>)

----------------------------------------------------------------------------
(* Expressions and their rendering. *)

Variable(name) == [tag |-> "Variable", name |-> name]
Abstraction(param, body) == [tag |-> "Abstraction", param |-> param, body |-> body]
Application(func, arg) == [tag |-> "Application", func |-> func, arg |-> arg]

\* No expression: a variable that holds no term yet.
NoExpr == [tag |-> "None"]
\* No text.
NoText == <<"<none>">>

RECURSIVE toString(_)
toString(e) ==
    CASE e.tag = "Variable" -> e.name
      [] e.tag = "Abstraction" -> <<Lambda>> \o e.param \o <<".">> \o toString(e.body)
      [] e.tag = "Application" ->
            <<"(">> \o toString(e.func) \o <<" ">> \o toString(e.arg) \o <<")">>

----------------------------------------------------------------------------
(* Parser.  A parse function takes the token sequence and currentPosition  *)
(* and gives [ok, expr, pos, what]: the term and the new currentPosition,  *)
(* or the message of the exception thrown.                                 *)

ExpectedDot ==
    <<"E","x","p","e","c","t","e","d"," ","'",".","'"," ","a","f","t","e","r"," ",
      "l","a","m","b","d","a"," ","p","a","r","a","m","e","t","e","r","s">>
ExpectedClosing ==
    <<"E","x","p","e","c","t","e","d"," ","c","l","o","s","i","n","g"," ",
      "p","a","r","e","n","t","h","e","s","i","s">>
UnexpectedTerm ==
    <<"U","n","e","x","p","e","c","t","e","d"," ","t","e","r","m">>

Parsed(e, pos) == [ok |-> TRUE, expr |-> e, pos |-> pos, what |-> <<>>]
Thrown(what) == [ok |-> FALSE, expr |-> NoExpr, pos |-> 0, what |-> what]

\* Parser::nextToken: the position stays on the last token (END).
nextToken(toks, pos) == IF pos < Len(toks) THEN pos + 1 ELSE pos

RECURSIVE ParamsEnd(_, _)
\* The position after the run of VARIABLE tokens that starts at pos.
ParamsEnd(toks, pos) ==
    IF toks[pos].type = "VARIABLE" THEN ParamsEnd(toks, nextToken(toks, pos)) ELSE pos

\* The parameters collected from the VARIABLE tokens in [from, to).
Parameters(toks, from, to) == [i \in 1..(to - from) |-> <<toks[from + i - 1].value>>]

RECURSIVE FoldParametersForward(_, _)
\* FoldParameters with the loop run from begin() to end().
FoldParametersForward(parameters, body) ==
    IF parameters = <<>> THEN body
    ELSE FoldParametersForward(Tail(parameters), Abstraction(Head(parameters), body))

RECURSIVE FoldParameters(_, _)
\* The loop over parameters.rbegin() .. rend(): the last parameter is innermost.
FoldParameters(parameters, body) ==
    IF parameters = <<>> THEN body
    ELSE FoldParameters(SubSeq(parameters, 1, Len(parameters) - 1),
                        Abstraction(parameters[Len(parameters)], body))

RECURSIVE parseExpression(_, _), parseApplication(_, _), ApplicationLoop(_, _, _),
          parseTerm(_, _)

parseExpression(toks, pos) ==
    IF toks[pos].type = "LAMBDA"
    THEN LET first == nextToken(toks, pos)
             dot == ParamsEnd(toks, first)
         IN  IF toks[dot].type # "DOT" THEN Thrown(ExpectedDot)
             ELSE LET body == parseExpression(toks, nextToken(toks, dot))
                  IN  IF ~body.ok THEN body
                      ELSE Parsed(FoldParameters(Parameters(toks, first, dot), body.expr),
                                  body.pos)
    ELSE parseApplication(toks, pos)

parseApplication(toks, pos) ==
    LET first == parseTerm(toks, pos)
    IN  IF ~first.ok THEN first ELSE ApplicationLoop(toks, first.expr, first.pos)

\* parseApplication's while loop, with expr the application built so far.
ApplicationLoop(toks, e, pos) ==
    IF toks[pos].type \in {"VARIABLE", "LPAREN"}
    THEN LET right == parseTerm(toks, pos)
         IN  IF ~right.ok THEN right
             ELSE ApplicationLoop(toks, Application(e, right.expr), right.pos)
    ELSE Parsed(e, pos)

parseTerm(toks, pos) ==
    IF toks[pos].type = "VARIABLE"
    THEN Parsed(Variable(<<toks[pos].value>>), nextToken(toks, pos))
    ELSE IF toks[pos].type = "LPAREN"
    THEN LET inner == parseExpression(toks, nextToken(toks, pos))
         IN  IF ~inner.ok THEN inner
             ELSE IF toks[inner.pos].type # "RPAREN" THEN Thrown(ExpectedClosing)
             ELSE Parsed(inner.expr, nextToken(toks, inner.pos))
    ELSE Thrown(UnexpectedTerm)

\* Parser::parse
parse(toks) == parseExpression(toks, 1)

----------------------------------------------------------------------------
(* Substitution engine. *)

RECURSIVE occursIn(_, _)
\* Whether varName is the name of a Variable or the param of an Abstraction of e.
occursIn(varName, e) ==
    CASE e.tag = "Variable" -> e.name = varName
      [] e.tag = "Abstraction" -> e.param = varName \/ occursIn(varName, e.body)
      [] e.tag = "Application" -> occursIn(varName, e.func) \/ occursIn(varName, e.arg)
      [] OTHER -> FALSE

RECURSIVE FreshFrom(_, _, _)
\* freshName's loop once newName occurs: the candidates base0, base1, ...
FreshFrom(base, i, context) ==
    LET newName == base \o ToStringNat(i)
    IN  IF occursIn(newName, context) THEN FreshFrom(base, i + 1, context) ELSE newName

freshName(base, context) ==
    IF occursIn(base, context) THEN FreshFrom(base, 0, context) ELSE base

RECURSIVE alphaConvert(_, _, _)
alphaConvert(e, oldVar, newVar) ==
    CASE e.tag = "Variable" -> IF e.name = oldVar THEN Variable(newVar) ELSE e
      [] e.tag = "Abstraction" ->
            IF e.param = oldVar
            THEN Abstraction(newVar, alphaConvert(e.body, oldVar, newVar))
            ELSE Abstraction(e.param, alphaConvert(e.body, oldVar, newVar))
      [] e.tag = "Application" ->
            Application(alphaConvert(e.func, oldVar, newVar),
                        alphaConvert(e.arg, oldVar, newVar))

RECURSIVE substitute(_, _, _)
substitute(e, varName, value) ==
    CASE e.tag = "Variable" -> IF e.name = varName THEN value ELSE e
      [] e.tag = "Abstraction" ->
            IF e.param = varName THEN e
            ELSE IF occursIn(e.param, value)
            THEN LET newParamName == freshName(e.param, value)
                     newBody == alphaConvert(e.body, e.param, newParamName)
                 IN  Abstraction(newParamName, substitute(newBody, varName, value))
            ELSE Abstraction(e.param, substitute(e.body, varName, value))
      [] e.tag = "Application" ->
            Application(substitute(e.func, varName, value),
                        substitute(e.arg, varName, value))

----------------------------------------------------------------------------
(* Reducer.  betaReduceStep gives the new term and the trace records it    *)
(* wrote to std::cout; the records are a bag, since the order in which the *)
(* two arguments of make_shared<Application> are evaluated is unspecified. *)

\* One line "β-reduce: <param> <- <argument text>".
TraceRecord(param, arg) == [param |-> param, arg |-> toString(arg)]

Stepped(e, trace) == [expr |-> e, trace |-> trace]

RECURSIVE betaReduceStepLeftmost(_)
\* betaReduceStep contracting one redex only, the leftmost of the outermost.
betaReduceStepLeftmost(e) ==
    CASE e.tag = "Application" ->
            IF e.func.tag = "Abstraction"
            THEN Stepped(substitute(e.func.body, e.func.param, e.arg),
                         SetToBag({TraceRecord(e.func.param, e.arg)}))
            ELSE LET f == betaReduceStepLeftmost(e.func)
                     a == betaReduceStepLeftmost(e.arg)
                 IN  IF f.trace # EmptyBag
                     THEN Stepped(Application(f.expr, e.arg), f.trace)
                     ELSE Stepped(Application(e.func, a.expr), a.trace)
      [] e.tag = "Abstraction" ->
            LET b == betaReduceStepLeftmost(e.body)
            IN  Stepped(Abstraction(e.param, b.expr), b.trace)
      [] OTHER -> Stepped(e, EmptyBag)

RECURSIVE betaReduceStep(_)
betaReduceStep(e) ==
    CASE e.tag = "Application" ->
            IF e.func.tag = "Abstraction"
            THEN Stepped(substitute(e.func.body, e.func.param, e.arg),
                         SetToBag({TraceRecord(e.func.param, e.arg)}))
            ELSE LET f == betaReduceStep(e.func)
                     a == betaReduceStep(e.arg)
                 IN  Stepped(Application(f.expr, a.expr), f.trace (+) a.trace)
      [] e.tag = "Abstraction" ->
            LET b == betaReduceStep(e.body)
            IN  Stepped(Abstraction(e.param, b.expr), b.trace)
      [] OTHER -> Stepped(e, EmptyBag)

RECURSIVE isReduced(_)
isReduced(e) ==
    CASE e.tag = "Application" ->
            e.func.tag # "Abstraction" /\ isReduced(e.func) /\ isReduced(e.arg)
      [] e.tag = "Abstraction" -> isReduced(e.body)
      [] e.tag = "Variable" -> TRUE
      [] OTHER -> FALSE

----------------------------------------------------------------------------
(* Inputs. *)

\* The codepoints the bounded texts are made of: every token class, a blank,
\* two variables and a digit.
Alphabet == {Lambda, ".", "(", ")", " ", "x", "y", "1"}

\* Every text over Alphabet of at most n codepoints.
AllTexts(n) == UNION {[1..k -> Alphabet] : k \in 0..n}

\* (λx.x) a
TextIdentityApp ==
    <<"(","λ","x",".","x",")"," ","a">>

\* (λx.λy.x) a b
TextCurry ==
    <<"(","λ","x",".","λ","y",".","x",")"," ","a"," ","b">>

\* (λy.(λx.y)) x
TextRename ==
    <<"(","λ","y",".","(","λ","x",".","y",")",")"," ","x">>

\* λx y.x
TextMulti ==
    <<"λ","x"," ","y",".","x">>

\* λx.λy.x
TextNested ==
    <<"λ","x",".","λ","y",".","x">>

\* ab
TextJuxtaposed ==
    <<"a","b">>

\* λx x
TextNoDot ==
    <<"λ","x"," ","x">>

\* (a
TextUnclosed ==
    <<"(","a">>

\* λx.1
TextDigit ==
    <<"λ","x",".","1">>

\* (λx.x x)(λx.x x)
TextOmega ==
    <<"(","λ","x",".","x"," ","x",")","(","λ","x",".","x"," ","x",")">>

\* (λx.x x x)(λx.x x x)
TextGrowing ==
    <<"(","λ","x",".","x"," ","x"," ","x",")","(","λ","x",".","x"," ","x"," ",
      "x",")">>

\* a ((λx.x) b) ((λy.y) c)
TextTwoRedexes ==
    <<"a"," ","(","(","λ","x",".","x",")"," ","b",")"," ","(","(","λ","y",".",
      "y",")"," ","c",")">>

\* (λx.x)((λy.y) a)
TextRedexInRedex ==
    <<"(","λ","x",".","x",")","(","(","λ","y",".","y",")"," ","a",")">>

\* (λx.x x)((λy.y) a)
TextRedexInArgument ==
    <<"(","λ","x",".","x"," ","x",")","(","(","λ","y",".","y",")"," ","a",")">>

\* (λx.x) y
TextAbsRedex ==
    <<"(","λ","x",".","x",")"," ","y">>

\* λxyx.y x
TextThreeParams ==
    <<"λ","x","y","x",".","y"," ","x">>

\* λ.x
TextNoParams ==
    <<"λ",".","x">>

\* a)
TextTrailingParen ==
    <<"a",")">>

\* a λx.x
TextTrailingLambda ==
    <<"a"," ","λ","x",".","x">>

\* (λa.a)(λa.a)(λv.λx.(λy.λx.y)x)x
TextInnerCapture ==
    <<"(","λ","a",".","a",")","(","λ","a",".","a",")","(","λ","v",".","λ","x",
      ".","(","λ","y",".","λ","x",".","y",")","x",")","x">>

\* (λa.a)(λa.a)(λa.a)(λv.(λy.λx.y x)(λw.λx.w))x
TextCapture ==
    <<"(","λ","a",".","a",")","(","λ","a",".","a",")","(","λ","a",".","a",")",
      "(","λ","v",".","(","λ","y",".","λ","x",".","y"," ","x",")","(","λ","w",
      ".","λ","x",".","w",")",")","x">>

\* Longer texts: the examples of the documentation and terms with the shapes
\* the reducer distinguishes.
Samples ==
    {TextIdentityApp, TextCurry, TextRename, TextMulti,
     TextNested, TextJuxtaposed, TextNoDot, TextUnclosed,
     TextDigit, TextOmega, TextGrowing, TextTwoRedexes,
     TextRedexInRedex, TextRedexInArgument, TextAbsRedex, TextThreeParams,
     TextNoParams, TextTrailingParen, TextTrailingLambda, TextCapture,
     TextInnerCapture}

\* The inputs of evaluate.
Texts == AllTexts(MaxLen) \cup Samples

\* "let a = b"
LineLet ==
    <<"l","e","t"," ","a"," ","="," ","b">>

\* "let i=(λx.x) a"
LineLetRedex ==
    <<"l","e","t"," ","i","=","(","λ","x",".","x",")"," ","a">>

\* "let bad = λx x"
LineLetBad ==
    <<"l","e","t"," ","b","a","d"," ","="," ","λ","x"," ","x">>

\* "let a b"
LineLetNoEquals ==
    <<"l","e","t"," ","a"," ","b">>

\* "  let b c =a"
LineLetSpaced ==
    <<" "," ","l","e","t"," ","b"," ","c"," ","=","a">>

\* "let w = (λx.x x)(λx.x x)"
LineLetOmega ==
    <<"l","e","t"," ","w"," ","="," ","(","λ","x",".","x"," ","x",")","(","λ",
      "x",".","x"," ","x",")">>

\* "a a"
LineUse ==
    <<"a"," ","a">>

\* "(λx.x) a"
LineRedex ==
    <<"(","λ","x",".","x",")"," ","a">>

\* " "
LineBlank ==
    <<" ">>

\* "λx.1"
LineDigit ==
    <<"λ","x",".","1">>

\* The lines of a session.
Lines ==
    {LineLet, LineLetRedex, LineLetBad, LineLetNoEquals,
     LineLetSpaced, LineLetOmega, LineUse, LineRedex,
     LineBlank, LineDigit}

----------------------------------------------------------------------------
(* The text type's conversions and the std::string operations the          *)
(* interpreter uses.  A std::string is a sequence of bytes; positions are  *)
(* counted from 1 and 0 stands for npos.                                   *)

\* String::toUTF8: one byte for an ASCII codepoint, two for the lambda.
ToUTF8(text) ==
    Concat([i \in 1..Len(text) |->
                IF text[i] = Lambda THEN <<"0xCE", "0xBB">> ELSE <<text[i]>>])

RECURSIVE FromUTF8(_)
\* String(const std::string&): the codepoints of a byte sequence.
FromUTF8(bytes) ==
    IF bytes = <<>> THEN <<>>
    ELSE IF Len(bytes) >= 2 /\ bytes[1] = "0xCE" /\ bytes[2] = "0xBB"
    THEN <<Lambda>> \o FromUTF8(SubSeq(bytes, 3, Len(bytes)))
    ELSE <<bytes[1]>> \o FromUTF8(Tail(bytes))

Min(a, b) == IF a < b THEN a ELSE b

\* s.find_first_not_of(c)
FindFirstNotOf(s, c) ==
    IF \E i \in 1..Len(s) : s[i] # c
    THEN CHOOSE i \in 1..Len(s) : s[i] # c /\ \A j \in 1..(i - 1) : s[j] = c
    ELSE 0

\* s.find(c, from)
Find(s, c, from) ==
    IF \E i \in from..Len(s) : s[i] = c
    THEN CHOOSE i \in from..Len(s) : s[i] = c /\ \A j \in from..(i - 1) : s[j] # c
    ELSE 0

\* s.substr(pos, n), for pos within s
Substr(s, pos, n) == SubSeq(s, pos, Min(Len(s), pos + n - 1))

\* trim: the whitespace at both ends erased, then every ' ' replaced by '-'.
trim(str) ==
    LET first == IF \E i \in 1..Len(str) : ~IsSpace(str[i])
                 THEN CHOOSE i \in 1..Len(str) :
                        ~IsSpace(str[i]) /\ \A j \in 1..(i - 1) : IsSpace(str[j])
                 ELSE Len(str) + 1
        s1 == SubSeq(str, first, Len(str))
        last == IF \E i \in 1..Len(s1) : ~IsSpace(s1[i])
                THEN CHOOSE i \in 1..Len(s1) :
                        ~IsSpace(s1[i]) /\ \A j \in (i + 1)..Len(s1) : IsSpace(s1[j])
                ELSE 0
        s2 == SubSeq(s1, 1, last)
    IN  [i \in 1..Len(s2) |-> IF s2[i] = " " THEN "-" ELSE s2[i]]

----------------------------------------------------------------------------
(* Binding store and interpreter. *)

BindingEntry(name, e) == [name |-> name, expr |-> e]

LetPrefix == <<"l", "e", "t", " ">>

\* processBinding: the InputType and, for a Binding, the entry it appends.
\* "Throws" stands for the std::out_of_range of substr(npos), thrown for a
\* line with no codepoint other than ' '.
processBinding(in) ==
    LET first == FindFirstNotOf(in, " ")
        trimmedInput == SubSeq(in, first, Len(in))
        wordEnd == Find(trimmedInput, "=", 5)
    IN  IF first = 0 THEN [type |-> "Throws", entry |-> BindingEntry(<<>>, <<>>)]
        ELSE IF Substr(trimmedInput, 1, 4) # LetPrefix
        THEN [type |-> "Expression", entry |-> BindingEntry(<<>>, <<>>)]
        ELSE IF wordEnd = 0
        THEN [type |-> "InvalidBinding", entry |-> BindingEntry(<<>>, <<>>)]
        ELSE [type |-> "Binding",
              entry |-> BindingEntry(
                  FromUTF8(trim(Substr(trimmedInput, 5, wordEnd - 5))),
                  FromUTF8(SubSeq(trimmedInput, wordEnd + 1, Len(trimmedInput))))]

ErrorPrefix == <<"E", "r", "r", "o", "r", ":", " ">>
InvalidSyntax == <<"I", "n", "v", "a", "l", "i", "d", " ", "S", "y", "n", "t", "a", "x">>

Result(value, isOk) == [value |-> value, isOk |-> isOk]
NoResult == [value |-> NoText, isOk |-> FALSE]

PopBack(s) == SubSeq(s, 1, Len(s) - 1)

\* StoreAfter without the pop_back.
StoreAfterKeeping(who, store, r) == store

\* The store as interpret leaves it when evaluate has returned r: a Binding
\* whose evaluation failed is removed again.
StoreAfter(who, store, r) ==
    IF who = "Binding" /\ ~r.isOk THEN PopBack(store) ELSE store

\* What interpret returns when evaluate has returned r.
OutputAfter(who, store, r) ==
    IF who = "Binding" /\ r.isOk
    THEN <<"<">> \o store[Len(store)].name \o <<">", " ">> \o r.value
    ELSE r.value

----------------------------------------------------------------------------
(* evaluate, one action per stage: the lexer, the parser, each call of     *)
(* betaReduceStep in betaReduce's loop, and the return.  The loop need not *)
(* end, so betaReduce is not one step.                                     *)

EvalLocals == <<tokens, start, prev, expr, log>>
Session == <<line, caller, globalMapping, output, history>>

\* Tokenize without the catch clause: the lexer's exception leaves evaluate.
TokenizeUncaught ==
    /\ pc = "lex"
    /\ LET r == tokenize(input)
       IN  IF r.ok
           THEN /\ tokens' = r.tokens
                /\ pc' = "parse"
           ELSE /\ pc' = "crashed"
                /\ UNCHANGED tokens
    /\ UNCHANGED <<input, start, prev, expr, log, result, Session>>

\* Lexer lexer(input); lexer.tokenize(): the catch clause gives the result
\* of a throw.
Tokenize ==
    /\ pc = "lex"
    /\ LET r == tokenize(input)
       IN  IF r.ok
           THEN /\ tokens' = r.tokens
                /\ pc' = "parse"
                /\ UNCHANGED result
           ELSE /\ result' = Result(ErrorPrefix \o r.what, FALSE)
                /\ pc' = "returned"
                /\ UNCHANGED tokens
    /\ UNCHANGED <<input, start, prev, expr, log, Session>>

\* Parser parser(tokens); parser.parse()
Parse ==
    /\ pc = "parse"
    /\ LET r == parse(tokens)
       IN  IF r.ok
           THEN /\ start' = r.expr
                /\ expr' = r.expr
                /\ pc' = "reduce"
                /\ UNCHANGED result
           ELSE /\ result' = Result(ErrorPrefix \o r.what, FALSE)
                /\ pc' = "returned"
                /\ UNCHANGED <<start, expr>>
    /\ UNCHANGED <<input, tokens, prev, log, Session>>

\* BetaReduceLoop as a do-while: the body runs before isReduced is asked.
BetaReduceLoopUnguarded ==
    /\ pc = "reduce"
    /\ Len(log) < MaxSteps
    /\ LET s == betaReduceStep(expr)
       IN  /\ prev' = expr
           /\ expr' = s.expr
           /\ log' = Append(log, s.trace)
    /\ UNCHANGED <<input, pc, tokens, start, result, Session>>

\* One pass of betaReduce's loop: expr = betaReduceStep(expr).
BetaReduceLoop ==
    /\ pc = "reduce"
    /\ ~isReduced(expr)
    /\ Len(log) < MaxSteps
    /\ LET s == betaReduceStep(expr)
       IN  /\ prev' = expr
           /\ expr' = s.expr
           /\ log' = Append(log, s.trace)
    /\ UNCHANGED <<input, pc, tokens, start, result, Session>>

\* betaReduce's loop ends and evaluate returns the rendering.
BetaReduceReturn ==
    /\ pc = "reduce"
    /\ isReduced(expr)
    /\ result' = Result(toString(expr), TRUE)
    /\ pc' = "returned"
    /\ UNCHANGED <<input, EvalLocals, Session>>

Evaluate == Tokenize \/ Parse \/ BetaReduceLoop \/ BetaReduceReturn

----------------------------------------------------------------------------
(* interpret: up to its call of evaluate, and from evaluate's return.      *)

\* evaluate's argument in the Expression branch.  The branch names
\* entry.expr, and entry is declared in the Binding branch only: a build
\* evaluates the line itself or, with the declaration moved up, the expr
\* of the last entry of the store.
ExpressionArgument(l, store, arg) ==
    \/ arg = l
    \/ store # <<>> /\ arg = store[Len(store)].expr

Interpret(l) ==
    /\ pc = "idle"
    /\ Len(history) < MaxCalls
    /\ LET b == processBinding(ToUTF8(l))
       IN  CASE b.type = "Binding" ->
                  /\ globalMapping' = Append(globalMapping, b.entry)
                  /\ input' = b.entry.expr
                  /\ caller' = "Binding"
                  /\ line' = l
                  /\ pc' = "lex"
                  /\ UNCHANGED <<output, history>>
             [] b.type = "Expression" ->
                  /\ ExpressionArgument(l, globalMapping, input')
                  /\ caller' = "Expression"
                  /\ line' = l
                  /\ pc' = "lex"
                  /\ UNCHANGED <<globalMapping, output, history>>
             [] b.type = "InvalidBinding" ->
                  /\ output' = InvalidSyntax
                  /\ history' = Append(history, l)
                  /\ UNCHANGED <<line, caller, input, pc, globalMapping>>
             [] b.type = "Throws" ->
                  /\ pc' = "crashed"
                  /\ line' = l
                  /\ UNCHANGED <<caller, input, globalMapping, output, history>>
    /\ UNCHANGED <<EvalLocals, result>>

InterpretReturn ==
    /\ pc = "returned"
    /\ caller # "none"
    /\ globalMapping' = StoreAfter(caller, globalMapping, result)
    /\ output' = OutputAfter(caller, globalMapping, result)
    /\ history' = Append(history, line)
    /\ pc' = "idle"
    /\ line' = NoText
    /\ caller' = "none"
    /\ input' = NoText
    /\ tokens' = <<>>
    /\ start' = NoExpr
    /\ prev' = NoExpr
    /\ expr' = NoExpr
    /\ log' = <<>>
    /\ result' = NoResult

----------------------------------------------------------------------------
(* Specifications. *)

NoEvaluation ==
    /\ tokens = <<>>
    /\ start = NoExpr
    /\ prev = NoExpr
    /\ expr = NoExpr
    /\ log = <<>>
    /\ result = NoResult

\* A session: the interpreter waits for its first line, the store is empty.
Init ==
    /\ pc = "idle"
    /\ line = NoText
    /\ caller = "none"
    /\ input = NoText
    /\ globalMapping = <<>>
    /\ output = NoText
    /\ history = <<>>
    /\ NoEvaluation

Next == (\E l \in Lines : Interpret(l)) \/ InterpretReturn \/ Evaluate

Spec == Init /\ [][Next]_vars

\* One call of evaluate on any of the texts.
InitEval ==
    /\ pc = "lex"
    /\ input \in Texts
    /\ line = NoText
    /\ caller = "none"
    /\ globalMapping = <<>>
    /\ output = NoText
    /\ history = <<>>
    /\ NoEvaluation

NextEval == Evaluate

SpecEval == InitEval /\ [][NextEval]_vars

\* The names of the bounded terms.
Names == {<<"x">>, <<"y">>}

\* Every term of at most MaxSize nodes over Names is handed to betaReduce.
MaxSize == 7

RECURSIVE TermsOfSize(_)
\* The terms of exactly n nodes over Names.
TermsOfSize(n) ==
    IF n = 1 THEN {Variable(v) : v \in Names}
    ELSE {Abstraction(v, b) : v \in Names, b \in TermsOfSize(n - 1)}
         \cup UNION {{Application(f, a) : f \in TermsOfSize(k),
                                          a \in TermsOfSize(n - 1 - k)} : k \in 1..(n - 2)}

\* The term a text parses to (NoExpr: none).
Term(text) ==
    LET t == tokenize(text)
    IN  IF t.ok THEN parse(t.tokens).expr ELSE NoExpr

\* The terms betaReduce is called on: they are terms the parser gives, the
\* small ones of fully parenthesised texts.
Terms ==
    UNION {TermsOfSize(n) : n \in 1..MaxSize} \cup ({Term(t) : t \in Samples} \ {NoExpr})

\* One call of betaReduce, as evaluate makes it once the parser has returned.
InitReduce ==
    /\ pc = "reduce"
    /\ start \in Terms
    /\ expr = start
    /\ input = NoText
    /\ tokens = <<>>
    /\ prev = NoExpr
    /\ log = <<>>
    /\ result = NoResult
    /\ line = NoText
    /\ caller = "none"
    /\ globalMapping = <<>>
    /\ output = NoText
    /\ history = <<>>

NextReduce == BetaReduceLoop \/ BetaReduceReturn

SpecReduce == InitReduce /\ [][NextReduce]_vars

----------------------------------------------------------------------------
(* Positions, redexes and free variables, for the statements below. *)

RECURSIVE Positions(_)
\* The positions of a term: the paths from its root, by field name.
Positions(e) ==
    {<<>>} \cup
    CASE e.tag = "Abstraction" -> {<<"body">> \o q : q \in Positions(e.body)}
      [] e.tag = "Application" ->
            {<<"func">> \o q : q \in Positions(e.func)}
            \cup {<<"arg">> \o q : q \in Positions(e.arg)}
      [] OTHER -> {}

RECURSIVE At(_, _)
\* The subterm of e at position q.
At(e, q) == IF q = <<>> THEN e ELSE At(e[Head(q)], Tail(q))

IsRedex(e) == e.tag = "Application" /\ e.func.tag = "Abstraction"

\* The redexes of e with no redex as a proper ancestor.
OutermostRedexes(e) ==
    {q \in Positions(e) :
        /\ IsRedex(At(e, q))
        /\ \A k \in 0..(Len(q) - 1) : ~IsRedex(At(e, SubSeq(q, 1, k)))}

\* The positions of e that are neither a redex nor inside one.
OutsideRedexes(e) ==
    {q \in Positions(e) : \A k \in 0..Len(q) : ~IsRedex(At(e, SubSeq(q, 1, k)))}

\* The node at the root of e, without its subterms.
Label(e) ==
    CASE e.tag = "Variable" -> <<e.tag, e.name>>
      [] e.tag = "Abstraction" -> <<e.tag, e.param>>
      [] OTHER -> <<e.tag>>

\* The contraction of the redex r.
Contractum(r) == substitute(r.func.body, r.func.param, r.arg)

RECURSIVE FreeVars(_)
FreeVars(e) ==
    CASE e.tag = "Variable" -> {e.name}
      [] e.tag = "Abstraction" -> FreeVars(e.body) \ {e.param}
      [] e.tag = "Application" -> FreeVars(e.func) \cup FreeVars(e.arg)
      [] OTHER -> {}

RECURSIVE BagSum(_)
\* The number of trace records of a sequence of bags.
BagSum(bags) ==
    IF bags = <<>> THEN 0 ELSE BagCardinality(Head(bags)) + BagSum(Tail(bags))

RECURSIVE StepN(_, _)
\* The n-th term of the sequence e, betaReduceStep(e), ...
StepN(e, n) == IF n = 0 THEN e ELSE StepN(betaReduceStep(e).expr, n - 1)

\* A call of betaReduceStep has been made in the running betaReduce.
Stepped1 == pc \in {"reduce", "returned"} /\ Len(log) > 0 /\ prev # NoExpr

----------------------------------------------------------------------------
(* C10 *)

\* C10: one call of betaReduceStep contracts exactly the redexes with no
\* redex as a proper ancestor, leaves every node outside them as it was and
\* contracts nothing inside a contracted redex (the contractum is the plain
\* substitution); it writes one trace record per contracted redex, so at
\* least one when the term is not reduced and none when it is; (λx.x) a
\* gives a with the one record x <- a, and (λx.λy.x) a b gives a with two
\* contractions.
C10_StepContractsOutermost ==
    /\ Stepped1 =>
         LET O == OutermostRedexes(prev)
             tr == log[Len(log)]
             rec(q) == TraceRecord(At(prev, q).func.param, At(prev, q).arg)
         IN  /\ \A q \in OutsideRedexes(prev) :
                    q \in Positions(expr) /\ Label(At(expr, q)) = Label(At(prev, q))
             /\ \A q \in O : q \in Positions(expr) /\ At(expr, q) = Contractum(At(prev, q))
             /\ BagCardinality(tr) = Cardinality(O)
             /\ \A q \in O : CopiesIn(rec(q), tr) = Cardinality({r \in O : rec(r) = rec(q)})
             /\ BagCardinality(tr) >= 1
    /\ (pc = "reduce" /\ isReduced(expr)) => betaReduceStep(expr) = Stepped(expr, EmptyBag)
    /\ (start = Term(TextIdentityApp) /\ Len(log) > 0) =>
         /\ log = <<SetToBag({[param |-> <<"x">>, arg |-> <<"a">>]})>>
         /\ expr = Variable(<<"a">>)
    /\ (start = Term(TextCurry) /\ pc = "returned") =>
         result.value = <<"a">> /\ BagSum(log) = 2

\* A step that contracted two redexes at once, in both sides of an application.
C10_Witness ==
    /\ Stepped1
    /\ start = Term(TextTwoRedexes)
    /\ BagCardinality(log[1]) = 2
    /\ expr = Application(Application(Variable(<<"a">>), Variable(<<"b">>)),
                          Variable(<<"c">>))

----------------------------------------------------------------------------
(* C7 *)

\* The self-application term (λx.x x)(λx.x x).
Omega ==
    LET w == Abstraction(<<"x">>, Application(Variable(<<"x">>), Variable(<<"x">>)))
    IN  Application(w, w)

\* C7: betaReduce returns the first reduced term of the sequence e,
\* betaReduceStep(e), ...: its expr is the term after as many steps as were
\* taken, no earlier term is reduced, the returned term is reduced (it
\* holds no redex), a
\* reduced term is returned unchanged with no step taken, and on the
\* self-application term the loop never leaves the reducing state.
C7_BetaReduceFirstNormal ==
    (pc \in {"reduce", "returned"} /\ start # NoExpr) =>
        /\ expr = StepN(start, Len(log))
        /\ \A j \in 0..(Len(log) - 1) : ~isReduced(StepN(start, j))
        /\ (pc = "returned" => isReduced(expr) /\ result = Result(toString(expr), TRUE))
        /\ isReduced(expr) = (\A q \in Positions(expr) : ~IsRedex(At(expr, q)))
        /\ (isReduced(start) => Len(log) = 0 /\ expr = start)
        /\ (start = Omega => pc = "reduce" /\ expr = Omega)

\* betaReduce returned after more than one step.
C7_Witness ==
    /\ pc = "returned"
    /\ start = Term(TextCurry)
    /\ Len(log) = 2
    /\ expr = Variable(<<"a">>)

\* The loop on the self-application term, after MaxSteps steps.
C7_WitnessOmega == pc = "reduce" /\ start = Omega /\ Len(log) >= 2 /\ expr = Omega

----------------------------------------------------------------------------
(* C1 *)

RECURSIVE NoCapture(_, _, _)
\* Along substitute(e, varName, value): wherever an abstraction is renamed,
\* the new parameter is free neither in value nor in the abstraction's body,
\* so it binds no occurrence that was free in value, free in e or bound
\* outside the abstraction.
NoCapture(e, varName, value) ==
    CASE e.tag = "Abstraction" ->
            IF e.param = varName THEN TRUE
            ELSE IF occursIn(e.param, value)
            THEN LET newParamName == freshName(e.param, value)
                 IN  /\ newParamName \notin FreeVars(value)
                     /\ newParamName \notin FreeVars(e.body)
                     /\ NoCapture(alphaConvert(e.body, e.param, newParamName),
                                  varName, value)
            ELSE NoCapture(e.body, varName, value)
      [] e.tag = "Application" ->
            NoCapture(e.func, varName, value) /\ NoCapture(e.arg, varName, value)
      [] OTHER -> TRUE

\* C1: no call of substitute that betaReduce makes on a parsed term captures
\* a variable: a parameter introduced by renaming binds no occurrence that
\* was free in value, free in expr or bound outside the renamed abstraction.
C1_SubstituteNeverCaptures ==
    Stepped1 =>
        \A q \in OutermostRedexes(prev) :
            NoCapture(At(prev, q).func.body, At(prev, q).func.param, At(prev, q).arg)

----------------------------------------------------------------------------
(* C8 *)

\* The token the documentation gives a codepoint that is neither whitespace
\* nor a digit.
ExpectedToken(c) ==
    CASE c = Lambda -> Token("LAMBDA", "")
      [] c = "." -> Token("DOT", "")
      [] c = "(" -> Token("LPAREN", "")
      [] c = ")" -> Token("RPAREN", "")
      [] OTHER -> Token("VARIABLE", c)

HasDigit(text) == \E i \in 1..Len(text) : IsDigit(text[i])

\* C8: tokenize gives one token per non-whitespace codepoint, in order,
\* then one END token, which appears nowhere else; a VARIABLE token carries
\* its one codepoint (ab gives VARIABLE a, VARIABLE b); the lexer fails,
\* with "Unexpected character encountered", exactly when the input holds a
\* decimal digit.
C8_TokenizeContract ==
    (pc # "lex" /\ caller = "none" /\ input # NoText) =>
        LET NotSpace(c) == ~IsSpace(c)
            nonws == SelectSeq(input, NotSpace)
        IN  /\ HasDigit(input) =>
                 /\ pc = "returned"
                 /\ tokens = <<>>
                 /\ result = Result(ErrorPrefix \o UnexpectedCharacter, FALSE)
            /\ ~HasDigit(input) =>
                 /\ Len(tokens) = Len(nonws) + 1
                 /\ \A i \in 1..Len(nonws) : tokens[i] = ExpectedToken(nonws[i])
                 /\ tokens[Len(tokens)] = Token("END", "")
                 /\ \A i \in 1..(Len(tokens) - 1) : tokens[i].type # "END"
                 /\ result.value # ErrorPrefix \o UnexpectedCharacter
            /\ input = TextJuxtaposed =>
                 tokens = <<Token("VARIABLE", "a"), Token("VARIABLE", "b"), Token("END", "")>>

\* The tokens of a text with whitespace and every token class.
C8_Witness ==
    /\ pc = "parse"
    /\ input = TextIdentityApp
    /\ tokens = <<Token("LPAREN", ""), Token("LAMBDA", ""), Token("VARIABLE", "x"),
                  Token("DOT", ""), Token("VARIABLE", "x"), Token("RPAREN", ""),
                  Token("VARIABLE", "a"), Token("END", "")>>

----------------------------------------------------------------------------
(* C6 *)

Messages == {UnexpectedCharacter, ExpectedDot, ExpectedClosing, UnexpectedTerm}

\* C6: evaluate returns isOk = false with "Error: " and the failure's
\* message when tokenizing or parsing fails, and isOk = true otherwise; no
\* failure escapes it; λx x, (a and an input with a digit give the messages
\* of the documentation.
C6_EvaluateReportsFailures ==
    /\ pc # "crashed"
    /\ (pc = "returned" /\ caller = "none") =>
         LET t == tokenize(input)
             p == IF t.ok THEN parse(t.tokens) ELSE Thrown(<<>>)
         IN  /\ result.isOk = (t.ok /\ p.ok)
             /\ ~t.ok => result.value = ErrorPrefix \o t.what
             /\ (t.ok /\ ~p.ok) => result.value = ErrorPrefix \o p.what
             /\ ~result.isOk =>
                    \E m \in Messages : result.value = ErrorPrefix \o m
             /\ result.isOk => result.value = toString(expr)
             /\ input = TextNoDot => result = Result(ErrorPrefix \o ExpectedDot, FALSE)
             /\ input = TextUnclosed => result = Result(ErrorPrefix \o ExpectedClosing, FALSE)
             /\ HasDigit(input) =>
                    result = Result(ErrorPrefix \o UnexpectedCharacter, FALSE)

\* The parser's failure on (a, reported.
C6_Witness ==
    /\ pc = "returned"
    /\ input = TextUnclosed
    /\ tokens # <<>>
    /\ result = Result(ErrorPrefix \o ExpectedClosing, FALSE)

----------------------------------------------------------------------------
(* C9 *)

\* A codepoint of the grammar's var.
IsVarCodepoint(c) == c \notin {Lambda, ".", "(", ")"} /\ ~IsSpace(c) /\ ~IsDigit(c)

RECURSIVE ParamRunEnd(_, _)
\* The first position from i of text that holds neither a var nor whitespace.
ParamRunEnd(text, i) ==
    IF i <= Len(text) /\ (IsVarCodepoint(text[i]) \/ IsSpace(text[i]))
    THEN ParamRunEnd(text, i + 1)
    ELSE i

\* text reads λ p1 ... pn . B with n >= 1: its parameters and its body B.
MultiForm(text) ==
    LET l == skipWhitespace(text, 1)
        e == ParamRunEnd(text, l + 1)
        ps == SelectSeq(SubSeq(text, l + 1, e - 1), IsVarCodepoint)
    IN  IF l <= Len(text) /\ text[l] = Lambda /\ e <= Len(text) /\ text[e] = "."
           /\ ps # <<>>
        THEN [is |-> TRUE, params |-> ps, body |-> SubSeq(text, e + 1, Len(text))]
        ELSE [is |-> FALSE, params |-> <<>>, body |-> <<>>]

\* λp1.λp2. ... λpn.B
Desugared(params, body) ==
    Concat([i \in 1..Len(params) |-> <<Lambda, params[i], ".">>]) \o body

RECURSIVE Nest(_, _)
\* Abstraction(p1, Abstraction(p2, ... Abstraction(pn, b)))
Nest(params, b) ==
    IF params = <<>> THEN b ELSE Abstraction(<<Head(params)>>, Nest(Tail(params), b))

\* C9: an input λp1 ... pn.B with n >= 1 parses to the tree of
\* λp1.λp2. ... λpn.B, which is Abstraction(p1, ... Abstraction(pn, parse(B))),
\* the first parameter outermost; it fails to parse when B does.
C9_MultiParameterDesugaring ==
    (pc \in {"reduce", "returned"} /\ tokens # <<>> /\ MultiForm(input).is) =>
        LET m == MultiForm(input)
            d == parse(tokenize(Desugared(m.params, m.body)).tokens)
            b == parse(tokenize(m.body).tokens)
        IN  IF b.ok
            THEN start = Nest(m.params, b.expr) /\ d.ok /\ d.expr = start
            ELSE start = NoExpr /\ ~d.ok /\ pc = "returned" /\ ~result.isOk

\* λxyx.y x, parsed: three parameters in their written order.
C9_Witness ==
    /\ pc = "reduce"
    /\ input = TextThreeParams
    /\ Len(log) = 0
    /\ start = Abstraction(<<"x">>, Abstraction(<<"y">>, Abstraction(<<"x">>,
                   Application(Variable(<<"y">>), Variable(<<"x">>)))))

----------------------------------------------------------------------------
(* C5 *)

RECURSIVE IsExpr(_, _, _), IsApplication(_, _, _), IsTerm(_, _, _)

\* The tokens i..j of t are a sentence of
\*     expr := 'λ' var+ '.' expr | application
IsExpr(t, i, j) ==
    \/ /\ i <= j
       /\ t[i].type = "LAMBDA"
       /\ \E k \in (i + 2)..(j - 1) :
             /\ \A m \in (i + 1)..(k - 1) : t[m].type = "VARIABLE"
             /\ t[k].type = "DOT"
             /\ IsExpr(t, k + 1, j)
    \/ IsApplication(t, i, j)

\*     application := term { term }
IsApplication(t, i, j) ==
    \E k \in i..j : IsTerm(t, i, k) /\ (k = j \/ IsApplication(t, k + 1, j))

\*     term := var | '(' expr ')'
IsTerm(t, i, j) ==
    \/ i = j /\ t[i].type = "VARIABLE"
    \/ i < j /\ t[i].type = "LPAREN" /\ t[j].type = "RPAREN" /\ IsExpr(t, i + 1, j - 1)

\* C5: the parser gives a term only if the tokens before END are a sentence
\* of expr: a lambda without parameters and tokens left over after a
\* complete expression are parse errors.
C5_ParserAcceptsExactlyGrammar ==
    (pc \in {"reduce", "returned"} /\ caller = "none" /\ tokens # <<>> /\ start # NoExpr) =>
        IsExpr(tokens, 1, Len(tokens) - 1)

----------------------------------------------------------------------------
(* C2 *)

\* C2: the rendering of a parsed tree tokenizes and parses, to the same tree.
C2_RoundTrip ==
    (pc \in {"reduce", "returned"} /\ tokens # <<>> /\ start # NoExpr) =>
        LET t == tokenize(toString(start))
        IN  t.ok /\ parse(t.tokens).ok /\ parse(t.tokens).expr = start

----------------------------------------------------------------------------
(* C4 *)

\* evaluate does not fail on text: the lexer and the parser accept it.
EvaluatesOk(text) == tokenize(text).ok /\ parse(tokenize(text).tokens).ok

RECURSIVE ExpectedStore(_)
\* The entries of the let lines of h whose right-hand side evaluates, in order.
ExpectedStore(h) ==
    IF h = <<>> THEN <<>>
    ELSE LET b == processBinding(ToUTF8(h[Len(h)]))
             rest == ExpectedStore(PopBack(h))
         IN  IF b.type = "Binding" /\ EvaluatesOk(b.entry.expr)
             THEN Append(rest, b.entry)
             ELSE rest

\* C4: between interpret calls the store holds, in order, the {name, text}
\* pairs of exactly the let lines whose right-hand side evaluated: a failed
\* let leaves the store as it was, and expression lines and let lines
\* without = leave it alone.
C4_StoreHoldsSuccessfulLets ==
    pc = "idle" =>
        /\ globalMapping = ExpectedStore(history)
        /\ history = <<LineLet>> =>
              globalMapping = <<BindingEntry(<<"a">>, <<" ", "b">>)>>
        /\ history = <<LineLetSpaced>> =>
              globalMapping = <<BindingEntry(<<"b", "-", "c">>, <<"a">>)>>
        /\ (history # <<>> /\ history[Len(history)] \in {LineLetBad, LineLetNoEquals, LineUse})
              => globalMapping = ExpectedStore(PopBack(history))

\* A let that evaluated, then a let that failed and was rolled back.
C4_Witness ==
    /\ pc = "idle"
    /\ history = <<LineLet, LineLetBad>>
    /\ globalMapping = <<BindingEntry(<<"a">>, <<" ", "b">>)>>
    /\ output = ErrorPrefix \o ExpectedDot

----------------------------------------------------------------------------
(* C3 *)

RECURSIVE Normalize(_, _)
\* betaReduce, followed for at most fuel steps.
Normalize(e, fuel) ==
    IF isReduced(e) \/ fuel = 0 THEN e ELSE Normalize(betaReduceStep(e).expr, fuel - 1)

\* C3: once let n = rhs has succeeded, interpret on an expression in which n
\* is free returns the reduction of the expression with the value bound
\* to n substituted for n.
C3_StoreConsulted ==
    (pc = "idle" /\ history # <<>>) =>
        LET l == history[Len(history)]
            t == Term(l)
        IN  (processBinding(ToUTF8(l)).type = "Expression" /\ t # NoExpr) =>
                \A i \in 1..Len(globalMapping) :
                    LET n == globalMapping[i].name
                        v == Term(globalMapping[i].expr)
                        expected == Normalize(substitute(t, n, Normalize(v, MaxSteps)),
                                              MaxSteps)
                    IN  (/\ n \in FreeVars(t)
                         /\ v # NoExpr
                         /\ \A j \in (i + 1)..Len(globalMapping) : globalMapping[j].name # n
                         /\ isReduced(expected))
                        => output = toString(expected)

============================================================================
